---- MODULE Spec2Model ----
(***************************************************************************)
(* A model of the review scraper (src/code.py): the date filter in_range,  *)
(* the three site extractors scrape_g2, scrape_capterra and                *)
(* scrape_saas_example with their shared pagination loop, and main with    *)
(* write_json.                                                             *)
(*                                                                         *)
(* Texts are sequences of one-character strings, so that lower-casing,     *)
(* stripping and date parsing are computed and not assumed.  An optional   *)
(* HTML element is a sequence of length at most one: <<>> when the         *)
(* selector finds nothing, <<x>> when it finds an element with content x.  *)
(* A float is held as its integer part and its fraction digits.            *)
(***************************************************************************)
EXTENDS Integers, Sequences, FiniteSets, TLC

VARIABLES
    company,      \* sys.argv[1], as given
    start_d,      \* parsed sys.argv[2]
    end_d,        \* parsed sys.argv[3]
    source,       \* sys.argv[4].lower()
    site,         \* the remote site: what each page request will answer
    pc,           \* where the run is
    page,         \* the extractor's page counter
    resp,         \* the last answer of requests.get
    cards,        \* the cards selected from the last page
    idx,          \* position of the for loop over cards
    all_reviews,  \* the extractor's accumulated list
    requests,     \* every requests.get issued, in order
    sleeps,       \* every time.sleep issued, in order
    error,        \* the exception that escaped, "" when none
    files,        \* every write_json performed, in order: name and content
    probe         \* one call of in_range on its own: arguments and result

vars == <<company, start_d, end_d, source, site, pc, page, resp, cards, idx,
          all_reviews, requests, sleeps, error, files, probe>>

runVars == <<company, start_d, end_d, source, site, pc, page, resp, cards, idx,
             all_reviews, requests, sleeps, error, files>>

----------------------------------------------------------------------------
(* Bounds of the model.                                                    *)

\* Most cards a site serves over all of its listed pages.
MaxCards == 2

\* Page requests after which the model stops following a site that never
\* ends (the code has no such limit).
MaxRequests == 4

----------------------------------------------------------------------------
(* Characters and texts.                                                   *)

None == <<>>
Some(x) == <<x>>

Drop(s, n) == SubSeq(s, n + 1, Len(s))
Take(s, n) == SubSeq(s, 1, n)

DigitChars == <<"0", "1", "2", "3", "4", "5", "6", "7", "8", "9">>

IsDigit(c) == \E i \in 1..10 : DigitChars[i] = c

DigitVal(c) == (CHOOSE i \in 1..10 : DigitChars[i] = c) - 1

\* str.isspace for the characters the model's texts use.
IsSpace(c) == c \in {" ", "\t", "\n"}

UpperToLower ==
    "A" :> "a" @@ "B" :> "b" @@ "C" :> "c" @@ "D" :> "d" @@ "E" :> "e" @@
    "F" :> "f" @@ "G" :> "g" @@ "H" :> "h" @@ "I" :> "i" @@ "J" :> "j" @@
    "K" :> "k" @@ "L" :> "l" @@ "M" :> "m" @@ "N" :> "n" @@ "O" :> "o" @@
    "P" :> "p" @@ "Q" :> "q" @@ "R" :> "r" @@ "S" :> "s" @@ "T" :> "t" @@
    "U" :> "u" @@ "V" :> "v" @@ "W" :> "w" @@ "X" :> "x" @@ "Y" :> "y" @@
    "Z" :> "z"

LowerChar(c) == IF c \in DOMAIN UpperToLower THEN UpperToLower[c] ELSE c

\* str.lower()
Lower(s) == [i \in 1..Len(s) |-> LowerChar(s[i])]

\* str.replace(' ', '_')
ReplaceSpaces(s) == [i \in 1..Len(s) |-> IF s[i] = " " THEN "_" ELSE s[i]]

RECURSIVE LStrip(_)
LStrip(s) == IF s # <<>> /\ IsSpace(Head(s)) THEN LStrip(Tail(s)) ELSE s

RECURSIVE RStrip(_)
RStrip(s) ==
    IF s # <<>> /\ IsSpace(s[Len(s)]) THEN RStrip(Take(s, Len(s) - 1)) ELSE s

\* str.strip()
Strip(s) == RStrip(LStrip(s))

----------------------------------------------------------------------------
(* Calendar dates: datetime.date, ordered as (year, month, day).           *)

Date(y, m, d) == [year |-> y, month |-> m, day |-> d]

DateLE(a, b) ==
    \/ a.year < b.year
    \/ a.year = b.year /\ a.month < b.month
    \/ a.year = b.year /\ a.month = b.month /\ a.day <= b.day

IsLeap(y) == (y % 4 = 0 /\ y % 100 # 0) \/ y % 400 = 0

DaysInMonth(y, m) ==
    IF m = 2 THEN (IF IsLeap(y) THEN 29 ELSE 28)
    ELSE IF m \in {4, 6, 9, 11} THEN 30 ELSE 31

\* What datetime(year, month, day) accepts.
ValidDate(y, m, d) ==
    /\ y \in 1..9999
    /\ m \in 1..12
    /\ d \in 1..DaysInMonth(y, m)

----------------------------------------------------------------------------
(* datetime.strptime, as the call in in_range uses it: the format becomes  *)
(* a regular expression matched case-insensitively from the start of the   *)
(* text, alternatives tried in order with backtracking; the whole text     *)
(* must be consumed; the fields must form a calendar date.                 *)

MonthFull == <<
    <<"j", "a", "n", "u", "a", "r", "y">>,
    <<"f", "e", "b", "r", "u", "a", "r", "y">>,
    <<"m", "a", "r", "c", "h">>,
    <<"a", "p", "r", "i", "l">>,
    <<"m", "a", "y">>,
    <<"j", "u", "n", "e">>,
    <<"j", "u", "l", "y">>,
    <<"a", "u", "g", "u", "s", "t">>,
    <<"s", "e", "p", "t", "e", "m", "b", "e", "r">>,
    <<"o", "c", "t", "o", "b", "e", "r">>,
    <<"n", "o", "v", "e", "m", "b", "e", "r">>,
    <<"d", "e", "c", "e", "m", "b", "e", "r">> >>

MonthAbbr == [m \in 1..12 |-> Take(MonthFull[m], 3)]

\* The order of the alternatives of %B: longest name first.
MonthOrder == <<9, 2, 11, 12, 1, 10, 8, 3, 4, 6, 7, 5>>

StartsWithNoCase(s, name) ==
    Len(s) >= Len(name) /\ Lower(Take(s, Len(name))) = name

\* The format directives: a directive is a field or a literal character.
FmtLong == <<"B", "ws", "d", ",", "ws", "Y">>    \* "%B %d, %Y"
FmtAbbr == <<"b", "ws", "d", ",", "ws", "Y">>    \* "%b %d, %Y"
FmtIso  == <<"Y", "-", "m", "-", "d">>           \* "%Y-%m-%d"

Formats == <<FmtLong, FmtAbbr, FmtIso>>

ValueError == [raised |-> "ValueError"]

Alt(f, v, n) == [f |-> f, v |-> v, n |-> n]

\* Length of the run of whitespace at the start of s.
RECURSIVE SpaceRun(_)
SpaceRun(s) == IF s # <<>> /\ IsSpace(Head(s)) THEN 1 + SpaceRun(Tail(s)) ELSE 0

TwoDigits(s) == DigitVal(s[1]) * 10 + DigitVal(s[2])

\* The ways directive tok can match at the start of s, in the order the
\* regular expression tries them.
MonthAlts(s, names, f) ==
    LET hit(i) == StartsWithNoCase(s, names[MonthOrder[i]])
        all == [i \in 1..12 |-> Alt(f, MonthOrder[i], Len(names[MonthOrder[i]]))]
    IN  [k \in 1..Len(SelectSeq([i \in 1..12 |-> i], hit))
            |-> all[SelectSeq([i \in 1..12 |-> i], hit)[k]]]

DayAlts(s) ==
    LET two == Len(s) >= 2 /\ IsDigit(s[1]) /\ IsDigit(s[2])
        a1 == IF two /\ s[1] = "3" /\ s[2] \in {"0", "1"}
              THEN <<Alt("d", TwoDigits(s), 2)>> ELSE <<>>
        a2 == IF two /\ s[1] \in {"1", "2"}
              THEN <<Alt("d", TwoDigits(s), 2)>> ELSE <<>>
        a3 == IF two /\ s[1] = "0" /\ s[2] # "0"
              THEN <<Alt("d", TwoDigits(s), 2)>> ELSE <<>>
        a4 == IF Len(s) >= 1 /\ IsDigit(s[1]) /\ s[1] # "0"
              THEN <<Alt("d", DigitVal(s[1]), 1)>> ELSE <<>>
        a5 == IF Len(s) >= 2 /\ s[1] = " " /\ IsDigit(s[2]) /\ s[2] # "0"
              THEN <<Alt("d", DigitVal(s[2]), 2)>> ELSE <<>>
    IN  a1 \o a2 \o a3 \o a4 \o a5

MonthNumAlts(s) ==
    LET two == Len(s) >= 2 /\ IsDigit(s[1]) /\ IsDigit(s[2])
        a1 == IF two /\ s[1] = "1" /\ s[2] \in {"0", "1", "2"}
              THEN <<Alt("m", TwoDigits(s), 2)>> ELSE <<>>
        a2 == IF two /\ s[1] = "0" /\ s[2] # "0"
              THEN <<Alt("m", TwoDigits(s), 2)>> ELSE <<>>
        a3 == IF Len(s) >= 1 /\ IsDigit(s[1]) /\ s[1] # "0"
              THEN <<Alt("m", DigitVal(s[1]), 1)>> ELSE <<>>
    IN  a1 \o a2 \o a3

YearAlts(s) ==
    IF Len(s) >= 4 /\ \A i \in 1..4 : IsDigit(s[i])
    THEN <<Alt("Y", TwoDigits(Take(s, 2)) * 100 + TwoDigits(SubSeq(s, 3, 4)), 4)>>
    ELSE <<>>

\* \s+ is greedy: the longest run first, then shorter ones.
SpaceAlts(s) ==
    LET n == SpaceRun(s) IN [k \in 1..n |-> Alt("ws", 0, n + 1 - k)]

LiteralAlts(s, c) ==
    IF s # <<>> /\ LowerChar(Head(s)) = LowerChar(c)
    THEN <<Alt("lit", 0, 1)>> ELSE <<>>

Alts(tok, s) ==
    CASE tok = "B"  -> MonthAlts(s, MonthFull, "m")
      [] tok = "b"  -> MonthAlts(s, MonthAbbr, "m")
      [] tok = "d"  -> DayAlts(s)
      [] tok = "m"  -> MonthNumAlts(s)
      [] tok = "Y"  -> YearAlts(s)
      [] tok = "ws" -> SpaceAlts(s)
      [] OTHER      -> LiteralAlts(s, tok)

NoMatch == [matched |-> FALSE]

Bind(g, a) == IF a.f \in {"Y", "m", "d"} THEN [g EXCEPT ![a.f] = a.v] ELSE g

\* re.match: the first way, in backtracking order, to match all of fmt at
\* the start of s; the result holds the fields and the text left over.
RECURSIVE Match(_, _, _)
RECURSIVE TryAlts(_, _, _, _)
Match(fmt, s, g) ==
    IF fmt = <<>> THEN [matched |-> TRUE, g |-> g, rest |-> s]
    ELSE TryAlts(Alts(Head(fmt), s), Tail(fmt), s, g)

TryAlts(alts, fmtRest, s, g) ==
    IF alts = <<>> THEN NoMatch
    ELSE LET a == Head(alts)
             r == Match(fmtRest, Drop(s, a.n), Bind(g, a))
         IN  IF r.matched THEN r ELSE TryAlts(Tail(alts), fmtRest, s, g)

\* datetime.strptime(text, fmt).date(), or ValueError.
Strptime(text, fmt) ==
    LET r == Match(fmt, text, [Y |-> 0, m |-> 0, d |-> 0])
    IN  IF ~r.matched THEN ValueError
        ELSE IF r.rest # <<>> THEN ValueError
        ELSE IF ~ValidDate(r.g.Y, r.g.m, r.g.d) THEN ValueError
        ELSE Date(r.g.Y, r.g.m, r.g.d)

----------------------------------------------------------------------------
(* The date filter.                                                        *)

RECURSIVE TryFormats(_, _, _, _)
TryFormats(fmts, text, lo, hi) ==
    IF fmts = <<>> THEN TRUE    \* do not drop if format unknown
    ELSE LET d == Strptime(text, Head(fmts))
         IN  IF d # ValueError THEN DateLE(lo, d) /\ DateLE(d, hi)
             ELSE TryFormats(Tail(fmts), text, lo, hi)

\* Variant: the window without its two end dates.
in_range_exclusive(date_str, lo, hi) ==
    LET inside(d) == DateLE(lo, d) /\ DateLE(d, hi) /\ d # lo /\ d # hi
        try[i \in 1..4] ==
            IF i > 3 THEN TRUE
            ELSE LET d == Strptime(Strip(date_str), Formats[i])
                 IN  IF d # ValueError THEN inside(d) ELSE try[i + 1]
    IN  try[1]

in_range(date_str, lo, hi) == TryFormats(Formats, Strip(date_str), lo, hi)

----------------------------------------------------------------------------
(* Floats, reviews and the per-site extraction of one card.                *)

\* A float written as digits with an optional fraction: its integer part
\* and its fraction digits without trailing zeros.
FloatOf(i, frac) == [int |-> i, frac |-> frac]

Zero == FloatOf(0, <<>>)

RECURSIVE DigitsValue(_)
DigitsValue(s) ==
    IF s = <<>> THEN 0 ELSE DigitsValue(Take(s, Len(s) - 1)) * 10 + DigitVal(s[Len(s)])

RECURSIVE DropTrailingZeros(_)
DropTrailingZeros(s) ==
    IF s # <<>> /\ s[Len(s)] = "0" THEN DropTrailingZeros(Take(s, Len(s) - 1)) ELSE s

\* float(text) for plain decimal texts: surrounding whitespace is ignored,
\* digits with at most one point and at least one digit are a number, and
\* every other text of the model's inputs raises ValueError.  (Signs,
\* exponents, inf, nan and underscores are not among those inputs.)
Float(text) ==
    LET s == Strip(text)
        dots == {i \in 1..Len(s) : s[i] = "."}
        plain == \A i \in 1..Len(s) : IsDigit(s[i]) \/ s[i] = "."
        dot == IF dots = {} THEN Len(s) + 1 ELSE CHOOSE i \in dots : TRUE
    IN  IF ~plain \/ Cardinality(dots) > 1 \/ Len(s) - Cardinality(dots) = 0
        THEN ValueError
        ELSE FloatOf(DigitsValue(Take(s, dot - 1)), DropTrailingZeros(Drop(s, dot)))

\* element.get_text(strip=True) of an element holding one text
GetText(el) == Strip(el[1])

Review(title, date, rating, reviewer_name, review_text, src, comp) ==
    [title |-> title, date |-> date, rating |-> rating,
     reviewer_name |-> reviewer_name, review_text |-> review_text,
     source |-> src, company |-> comp]

Fields(title, date, rating, user, body) ==
    [raised |-> "", title |-> title, date |-> date, rating |-> rating,
     user |-> user, body |-> body]

Raise(exc) ==
    [raised |-> exc, title |-> <<>>, date |-> <<>>, rating |-> Zero,
     user |-> <<>>, body |-> <<>>]

\* A card is [title, date, rating, user, body], each an optional element;
\* the rating element holds its optional value (G2: the content attribute,
\* Capterra: the text, SaaS: the data-score attribute).
TextOrEmpty(el) == IF el # None THEN GetText(el) ELSE <<>>

FloatOrZero(text) == IF Float(text) = ValueError THEN Zero ELSE Float(text)

ExtractG2(card) ==
    Fields(TextOrEmpty(card.title),
           TextOrEmpty(card.date),
           IF card.rating # None /\ card.rating[1] # None /\ card.rating[1][1] # <<>>
           THEN FloatOrZero(card.rating[1][1]) ELSE Zero,
           TextOrEmpty(card.user),
           TextOrEmpty(card.body))

ExtractCapterra(card) ==
    Fields(TextOrEmpty(card.title),
           TextOrEmpty(card.date),
           IF card.rating # None
           THEN FloatOrZero(IF card.rating[1] = None THEN <<>> ELSE GetText(card.rating[1]))
           ELSE Zero,
           TextOrEmpty(card.user),
           TextOrEmpty(card.body))

ExtractSaas(card) ==
    IF card.title = None THEN Raise("AttributeError")
    ELSE IF card.date = None THEN Raise("AttributeError")
    ELSE IF card.rating = None THEN Raise("TypeError")
    ELSE IF card.rating[1] = None THEN Raise("KeyError")
    ELSE IF Float(card.rating[1][1]) = ValueError THEN Raise("ValueError")
    ELSE IF card.user = None THEN Raise("AttributeError")
    ELSE IF card.body = None THEN Raise("AttributeError")
    ELSE Fields(GetText(card.title), GetText(card.date), Float(card.rating[1][1]),
                GetText(card.user), GetText(card.body))

Extract(src, card) ==
    CASE src = "g2"       -> ExtractG2(card)
      [] src = "capterra" -> ExtractCapterra(card)
      [] OTHER            -> ExtractSaas(card)

----------------------------------------------------------------------------
(* URLs, the slug maps and the output file.                                *)

TIMEOUT == 20

DELAY == 1

HTTP_OK == 200

G2SlugMap == <<"p", "u", "l", "s", "e">> :> <<"p", "u", "l", "s", "e">>

CapterraSlugMap == <<"p", "u", "l", "s", "e">> :> <<"1", "2", "3", "4", "5", "/", "P", "u", "l", "s", "e">>

SlugMap(src) == IF src = "g2" THEN G2SlugMap ELSE CapterraSlugMap

\* Variant: a missing slug_map entry goes unnoticed.
AnyCompanyConfigured(src, key) == TRUE

\* key in slug_map; only scrape_g2 and scrape_capterra look the company up.
SlugConfigured(src, key) ==
    src \notin {"g2", "capterra"} \/ key \in DOMAIN SlugMap(src)

URL(base, product, tail, query) ==
    [base |-> base, product |-> product, tail |-> tail, query |-> query]

\* f"https://www.g2.com/products/{product_slug}/reviews?page={page}"
build_g2_url(product_slug, p) ==
    URL("https://www.g2.com/products/", product_slug, "/reviews", Some(p))

\* the page number is left out of the URL of page 1
build_capterra_url(product_path, p) ==
    URL("https://www.capterra.com/p/", product_path, "/reviews/",
        IF p = 1 THEN None ELSE Some(p))

\* f"https://example-saas-reviews.com/{company.lower()}/reviews?page=" + str(page)
build_saas_url(comp, p) ==
    URL("https://example-saas-reviews.com/", Lower(comp), "/reviews", Some(p))

PageUrl(src, comp, p) ==
    CASE src = "g2"       -> build_g2_url(G2SlugMap[Lower(comp)], p)
      [] src = "capterra" -> build_capterra_url(CapterraSlugMap[Lower(comp)], p)
      [] OTHER            -> build_saas_url(comp, p)

SourceText == "g2" :> <<"g", "2">> @@ "capterra" :> <<"c", "a", "p", "t", "e", "r", "r", "a">> @@ "saas" :> <<"s", "a", "a", "s">>

\* f"{company.lower().replace(' ', '_')}_{source}_reviews.json"
FileName(comp, src) ==
    ReplaceSpaces(Lower(comp)) \o <<"_">> \o SourceText[src] \o <<"_", "r", "e", "v", "i", "e", "w", "s", ".", "j", "s", "o", "n">>

\* dataclasses.asdict: the fields as key and value, in declaration order
asdict(r) ==
    << <<"title", r.title>>, <<"date", r.date>>, <<"rating", r.rating>>,
       <<"reviewer_name", r.reviewer_name>>, <<"review_text", r.review_text>>,
       <<"source", r.source>>, <<"company", r.company>> >>

\* What write_json puts in the file.
FileData(reviews) == [i \in 1..Len(reviews) |-> asdict(reviews[i])]

----------------------------------------------------------------------------
(* The remote site.  A site lists pages of at least one card each; every   *)
(* page after the listed ones gets the same answer, the site's tail: a     *)
(* status that is not 200, a page without cards, a request that fails, or  *)
(* one more page of cards (a site that never ends).                        *)

Response(status, cs) == [kind |-> "response", status |-> status, cards |-> cs]

Failure(exc) == [kind |-> exc, status |-> 0, cards |-> <<>>]

NoResponse == [kind |-> "none", status |-> 0, cards |-> <<>>]

\* requests.get(url, timeout=20) for page p of the site
Answer(st, p) ==
    IF p <= Len(st.pages) THEN Response(HTTP_OK, st.pages[p]) ELSE st.tail

----------------------------------------------------------------------------
(* Inputs.                                                                 *)

UpperChar(c) ==
    IF \E u \in DOMAIN UpperToLower : UpperToLower[u] = c
    THEN CHOOSE u \in DOMAIN UpperToLower : UpperToLower[u] = c
    ELSE c

Capitalize(s) == <<UpperChar(Head(s))>> \o Tail(s)

Upper(s) == [i \in 1..Len(s) |-> UpperChar(s[i])]

\* n written with at least w digits
RECURSIVE Digits(_, _)
Digits(n, w) ==
    IF n < 10 /\ w <= 1 THEN <<DigitChars[n + 1]>>
    ELSE Digits(n \div 10, w - 1) \o <<DigitChars[(n % 10) + 1]>>

\* The ways the model writes calendar date d as a text in a supported
\* format.
Written(d, style) ==
    CASE style = "long" ->
            Capitalize(MonthFull[d.month]) \o <<" ">> \o Digits(d.day, 1)
                \o <<",", " ">> \o Digits(d.year, 4)
      [] style = "long-padded" ->
            Capitalize(MonthFull[d.month]) \o <<" ">> \o Digits(d.day, 2)
                \o <<",", " ">> \o Digits(d.year, 4)
      [] style = "long-lower-spaced" ->
            <<" ">> \o MonthFull[d.month] \o <<" ", " ">> \o Digits(d.day, 1)
                \o <<",", "\t">> \o Digits(d.year, 4) \o <<"\n">>
      [] style = "abbr" ->
            Capitalize(MonthAbbr[d.month]) \o <<" ">> \o Digits(d.day, 1)
                \o <<",", " ">> \o Digits(d.year, 4)
      [] style = "abbr-upper" ->
            Upper(MonthAbbr[d.month]) \o <<" ">> \o Digits(d.day, 2)
                \o <<",", " ">> \o Digits(d.year, 4)
      [] style = "iso" ->
            Digits(d.year, 4) \o <<"-">> \o Digits(d.month, 2) \o <<"-">>
                \o Digits(d.day, 2)
      [] OTHER ->  \* "iso-short"
            Digits(d.year, 4) \o <<"-">> \o Digits(d.month, 1) \o <<"-">>
                \o Digits(d.day, 1)

Styles == {"long", "long-padded", "long-lower-spaced", "abbr", "abbr-upper",
           "iso", "iso-short"}

ProbeDates == {Date(2023, 12, 31), Date(2024, 1, 1), Date(2024, 1, 5),
               Date(2024, 2, 10), Date(2024, 2, 29), Date(2024, 10, 2),
               Date(2024, 12, 31), Date(2025, 1, 1), Date(987, 5, 31)}

\* Texts in none of the three formats, or naming no calendar date.
OtherTexts == {
    <<>>,
    <<"n", "o", "t", " ", "a", " ", "d", "a", "t", "e">>,
    <<"F", "e", "b", "r", "u", "a", "r", "y", " ", "3", "0", ",", " ", "2", "0", "2", "4">>,
    <<"2", "0", "2", "3", "-", "0", "2", "-", "2", "9">>,
    <<"J", "a", "n", "u", "a", "r", "y", " ", "5", ",", "2", "0", "2", "4">>,
    <<"S", "e", "p", "t", " ", "5", ",", " ", "2", "0", "2", "4">>,
    <<"2", "0", "2", "4", "-", "1", "3", "-", "0", "1">>,
    <<"0", "1", "/", "0", "5", "/", "2", "0", "2", "4">>,
    <<"J", "a", "n", "u", "a", "r", "y", " ", "5", " ", "2", "0", "2", "4">>,
    <<"0", "0", "0", "0", "-", "0", "1", "-", "0", "1">>,
    <<"2", "0", "2", "4", "-", "0", "1", "-", "0", "5", "1">> }

Companies == {<<"P", "u", "l", "s", "e">>, <<"A", "c", "m", "e", " ", "C", "o", "r", "p">>}

Sources == {"g2", "capterra", "saas"}

Windows == {<<Date(2024, 1, 1), Date(2024, 12, 31)>>,
            <<Date(2023, 3, 3), Date(2024, 1, 5)>>}

Card(title, date, rating, user, body) ==
    [title |-> title, date |-> date, rating |-> rating, user |-> user, body |-> body]

CardFull ==
    Card(Some(<<"G", "o", "o", "d">>), Some(Written(Date(2024, 1, 5), "long")),
         Some(Some(<<"4", ".", "5">>)), Some(<<"A", "n", "n">>), Some(<<" ", "F", "a", "s", "t", " ">>))

CardOld ==
    Card(Some(<<"S", "l", "o", "w">>), Some(Written(Date(2023, 3, 3), "iso")),
         Some(Some(<<"3">>)), Some(<<"B", "o", "b">>), Some(<<"L", "a", "t", "e">>))

CardNoRating ==
    Card(Some(<<"F", "i", "n", "e">>), Some(Written(Date(2024, 2, 29), "abbr")),
         None, Some(<<"C", "y">>), Some(<<"O", "k", "a", "y">>))

CardNoDate ==
    Card(Some(<<"H", "m", "m">>), None, Some(Some(<<"N", "/", "A">>)), Some(<<"D", "e", "e">>), Some(<<"O", "d", "d">>))

CardBadDate ==
    Card(Some(<<"W", "o", "w">>), Some(<<"n", "o", "t", " ", "a", " ", "d", "a", "t", "e">>), Some(Some(<<"5", ".", "0">>)), Some(<<"E", "d">>),
         Some(<<"N", "e", "a", "t">>))

Cards == {CardFull, CardOld, CardNoRating, CardNoDate, CardBadDate}

PageBodies(n) == UNION {[1..k -> Cards] : k \in 1..n}

\* The lists of pages that hold at most n cards together.
RECURSIVE PageSeqs(_)
PageSeqs(n) ==
    {<<>>} \cup
    UNION {{<<b>> \o rest : rest \in PageSeqs(n - Len(b))} : b \in PageBodies(n)}

Tails == {Response(404, <<>>), Response(HTTP_OK, <<>>), Failure("Timeout"),
          Response(HTTP_OK, <<CardFull>>)}

Sites == [pages : PageSeqs(MaxCards), tail : Tails]

Endless(st) == st.tail.kind = "response" /\ st.tail.status = HTTP_OK /\ st.tail.cards # <<>>

----------------------------------------------------------------------------
(* One run of main: scrape, then write_json.                               *)

ProbeIdle ==
    [pc |-> "idle", date_str |-> <<>>, supported |-> FALSE, date |-> Date(1, 1, 1),
     lo |-> Date(1, 1, 1), hi |-> Date(1, 1, 1), ret |-> FALSE]

Init ==
    /\ company \in Companies
    /\ \E w \in Windows : start_d = w[1] /\ end_d = w[2]
    /\ source \in Sources
    /\ site \in Sites
    /\ pc = "main"
    /\ page = 0
    /\ resp = NoResponse
    /\ cards = <<>>
    /\ idx = 0
    /\ all_reviews = <<>>
    /\ requests = <<>>
    /\ sleeps = <<>>
    /\ error = ""
    /\ files = <<>>
    /\ probe = ProbeIdle

\* main dispatches to an extractor whose slug_map lacks the company:
\* ValueError, raised before the loop.
ScrapeNoSlug ==
    /\ pc = "main"
    /\ ~SlugConfigured(source, Lower(company))
    /\ pc' = "raised"
    /\ error' = "ValueError"
    /\ UNCHANGED <<company, start_d, end_d, source, site, page, resp, cards, idx,
                   all_reviews, requests, sleeps, files, probe>>

\* main dispatches to an extractor, which sets up its loop.
ScrapeStart ==
    /\ pc = "main"
    /\ SlugConfigured(source, Lower(company))
    /\ pc' = "fetch"
    /\ page' = 1
    /\ all_reviews' = <<>>
    /\ UNCHANGED <<company, start_d, end_d, source, site, resp, cards, idx,
                   requests, sleeps, error, files, probe>>

Request(src, comp, p) == [url |-> PageUrl(src, comp, p), timeout |-> TIMEOUT, page |-> p]

\* The head of the loop up to requests.get: every outcome below starts so.
Get ==
    /\ pc = "fetch"
    /\ Len(requests) < MaxRequests
    /\ requests' = Append(requests, Request(source, company, page))
    /\ resp' = Answer(site, page)

\* Variant: a failed request ends the pagination as a bad status does.
FetchRaisesReturnsInstead ==
    /\ Get
    /\ resp'.kind \notin {"response"}
    /\ pc' = "return"
    /\ UNCHANGED <<company, start_d, end_d, source, site, page, cards, idx,
                   all_reviews, sleeps, error, files, probe>>

\* requests.get raises (a timeout, a connection failure): nothing catches it.
FetchRaises ==
    /\ Get
    /\ resp'.kind \notin {"response"}
    /\ pc' = "raised"
    /\ error' = resp'.kind
    /\ UNCHANGED <<company, start_d, end_d, source, site, page, cards, idx,
                   all_reviews, sleeps, files, probe>>

\* if resp.status_code != 200: break
FetchNotOk ==
    /\ Get
    /\ resp'.kind = "response"
    /\ resp'.status # HTTP_OK
    /\ pc' = "return"
    /\ UNCHANGED <<company, start_d, end_d, source, site, page, cards, idx,
                   all_reviews, sleeps, error, files, probe>>

\* Variant: a page without cards does not end the pagination.
FetchNoCardsGoesOn ==
    /\ Get
    /\ resp'.kind = "response"
    /\ resp'.status = HTTP_OK
    /\ resp'.cards = <<>>
    /\ cards' = <<>>
    /\ idx' = 1
    /\ pc' = "cards"
    /\ UNCHANGED <<company, start_d, end_d, source, site, page, all_reviews,
                   sleeps, error, files, probe>>

\* if not cards: break
FetchNoCards ==
    /\ Get
    /\ resp'.kind = "response"
    /\ resp'.status = HTTP_OK
    /\ resp'.cards = <<>>
    /\ cards' = <<>>
    /\ pc' = "return"
    /\ UNCHANGED <<company, start_d, end_d, source, site, page, idx,
                   all_reviews, sleeps, error, files, probe>>

\* The page has cards: the for loop starts.
FetchCards ==
    /\ Get
    /\ resp'.kind = "response"
    /\ resp'.status = HTTP_OK
    /\ resp'.cards # <<>>
    /\ cards' = resp'.cards
    /\ idx' = 1
    /\ pc' = "cards"
    /\ UNCHANGED <<company, start_d, end_d, source, site, page, all_reviews,
                   sleeps, error, files, probe>>

\* Variant: the review is appended whatever its date.
AppendedUnfiltered(reviews, x, src, comp, lo, hi) ==
    Append(reviews, Review(x.title, x.date, x.rating, x.user, x.body, src, comp))

\* if not in_range(...): continue; all_reviews.append(Review(...))
Appended(reviews, x, src, comp, lo, hi) ==
    IF in_range(x.date, lo, hi)
    THEN Append(reviews, Review(x.title, x.date, x.rating, x.user, x.body, src, comp))
    ELSE reviews

\* One pass of the for loop: the card's fields are extracted, and the card
\* is kept or dropped; an exception of the extraction escapes.
ProcessCard ==
    /\ pc = "cards"
    /\ idx <= Len(cards)
    /\ LET x == Extract(source, cards[idx])
       IN  IF x.raised # ""
           THEN /\ pc' = "raised"
                /\ error' = x.raised
                /\ UNCHANGED <<idx, all_reviews>>
           ELSE /\ all_reviews' = Appended(all_reviews, x, source, company, start_d, end_d)
                /\ idx' = idx + 1
                /\ UNCHANGED <<pc, error>>
    /\ UNCHANGED <<company, start_d, end_d, source, site, page, resp, cards,
                   requests, sleeps, files, probe>>

\* Variant: the next page is requested without the delay.
NextPageNoSleep ==
    /\ pc = "cards"
    /\ idx > Len(cards)
    /\ page' = page + 1
    /\ pc' = "fetch"
    /\ UNCHANGED <<company, start_d, end_d, source, site, resp, cards, idx,
                   all_reviews, requests, sleeps, error, files, probe>>

\* page += 1; time.sleep(1)
NextPage ==
    /\ pc = "cards"
    /\ idx > Len(cards)
    /\ page' = page + 1
    /\ sleeps' = Append(sleeps, DELAY)
    /\ pc' = "fetch"
    /\ UNCHANGED <<company, start_d, end_d, source, site, resp, cards, idx,
                   all_reviews, requests, error, files, probe>>

\* return all_reviews, and main's write_json(company, source, reviews)
WriteJson ==
    /\ pc = "return"
    /\ files' = Append(files, [name |-> FileName(company, source),
                               data |-> FileData(all_reviews)])
    /\ pc' = "done"
    /\ UNCHANGED <<company, start_d, end_d, source, site, page, resp, cards, idx,
                   all_reviews, requests, sleeps, error, probe>>

Next ==
    \/ ScrapeNoSlug
    \/ ScrapeStart
    \/ FetchRaises
    \/ FetchNotOk
    \/ FetchNoCards
    \/ FetchCards
    \/ ProcessCard
    \/ NextPage
    \/ WriteJson

Spec == Init /\ [][Next]_vars

----------------------------------------------------------------------------
(* in_range on its own: one call on a date text and a window.              *)

ProbeInputs ==
    {[text |-> Written(d, st), supported |-> TRUE, date |-> d] :
        d \in ProbeDates, st \in Styles}
    \cup {[text |-> t, supported |-> FALSE, date |-> Date(1, 1, 1)] : t \in OtherTexts}

InitInRange ==
    /\ company = <<>>
    /\ start_d = Date(1, 1, 1)
    /\ end_d = Date(1, 1, 1)
    /\ source = "g2"
    /\ site = [pages |-> <<>>, tail |-> Response(404, <<>>)]
    /\ pc = "idle"
    /\ page = 0
    /\ resp = NoResponse
    /\ cards = <<>>
    /\ idx = 0
    /\ all_reviews = <<>>
    /\ requests = <<>>
    /\ sleeps = <<>>
    /\ error = ""
    /\ files = <<>>
    /\ \E in \in ProbeInputs, lo \in ProbeDates, hi \in ProbeDates :
          probe = [pc |-> "call", date_str |-> in.text, supported |-> in.supported,
                   date |-> in.date, lo |-> lo, hi |-> hi, ret |-> FALSE]

InRangeCall ==
    /\ probe.pc = "call"
    /\ probe' = [probe EXCEPT !.pc = "returned",
                              !.ret = in_range(probe.date_str, probe.lo, probe.hi)]
    /\ UNCHANGED runVars

NextInRange == InRangeCall

SpecInRange == InitInRange /\ [][NextInRange]_vars

----------------------------------------------------------------------------
(* What the claims speak of.                                               *)

\* The fields a card is claimed to give: every extractor replaces a missing
\* element by the empty text and a missing or unreadable rating by 0.0.
ExtractSaasLenient(card) ==
    Fields(TextOrEmpty(card.title),
           TextOrEmpty(card.date),
           IF card.rating # None /\ card.rating[1] # None
           THEN FloatOrZero(card.rating[1][1]) ELSE Zero,
           TextOrEmpty(card.user),
           TextOrEmpty(card.body))

ClaimedFields(src, card) ==
    IF src = "saas" THEN ExtractSaasLenient(card) ELSE Extract(src, card)

RECURSIVE Flatten(_)
Flatten(pages) == IF pages = <<>> THEN <<>> ELSE Head(pages) \o Flatten(Tail(pages))

\* The reviews of the cards cs that pass the date filter, in order.
RECURSIVE KeptFrom(_, _, _, _, _)
KeptFrom(cs, src, comp, lo, hi) ==
    IF cs = <<>> THEN <<>>
    ELSE LET x == ClaimedFields(src, Head(cs))
             rest == KeptFrom(Tail(cs), src, comp, lo, hi)
         IN  IF in_range(x.date, lo, hi)
             THEN <<Review(x.title, x.date, x.rating, x.user, x.body, src, comp)>> \o rest
             ELSE rest

\* The reviews of the first n pages of the site.
KeptOfPages(n) == KeptFrom(Flatten(Take(site.pages, n)), source, company, start_d, end_d)

Ended == pc \in {"done", "raised"}

\* The company has an entry in the selected extractor's slug_map, or the
\* extractor has no slug_map.
Mapped == source = "saas" \/ Lower(company) \in DOMAIN SlugMap(source)

\* The last answer was a status other than 200, or a page without cards.
StopAnswer(r) == r.kind = "response" /\ (r.status # HTTP_OK \/ r.cards = <<>>)

\* A number that orders calendar dates as the calendar does.
DayNumber(d) == d.year * 372 + d.month * 31 + d.day

\* The text matches none of the three formats as a calendar date.
Unparseable(text) == \A i \in 1..3 : Strptime(Strip(text), Formats[i]) = ValueError

\* The date text the extractors are said to take from a card: the text of
\* its date element, the empty text without one.
DateTextOf(card) == IF card.date = None THEN <<>> ELSE GetText(card.date)

PrefixOf(a, b) == Len(a) <= Len(b) /\ Take(b, Len(a)) = a

----------------------------------------------------------------------------
C1_Precondition ==
    /\ Mapped
    /\ site.tail.kind = "response"
    /\ site.tail.status # HTTP_OK

(* C1: for each extractor, when pages 1..N each return 200 with at least   *)
(* one card and page N+1 returns a status other than 200, the run ends     *)
(* with exactly the cards of pages 1..N that pass in_range returned and    *)
(* written, in page order and then card order.                             *)
C1_ExactlyTheFilteredCards ==
    (C1_Precondition /\ Ended) =>
        /\ pc = "done"
        /\ all_reviews = KeptOfPages(Len(site.pages))
        /\ Len(files) = 1
        /\ files[1].data = FileData(KeptOfPages(Len(site.pages)))

(* C2: when a request fails at the network level on page k, the extractor  *)
(* ends pagination without raising, and the reviews of pages 1..k-1 are    *)
(* returned and written by write_json.                                     *)
C2_FailedRequestEndsQuietly ==
    (Ended /\ resp.kind = "Timeout") =>
        /\ pc = "done"
        /\ error = ""
        /\ Len(files) = 1
        /\ files[1].data = FileData(all_reviews)

C3_ZeroCards == resp.kind = "response" /\ resp.status = HTTP_OK /\ resp.cards = <<>>

(* C3: when page k is fetched with status 200 and holds no cards, the      *)
(* extractor stops without raising, requests no page after k, and returns  *)
(* exactly the reviews of pages 1..k-1 (none when k = 1).                  *)
C3_ZeroCardsStops ==
    C3_ZeroCards =>
        /\ pc \in {"return", "done"}
        /\ error = ""
        /\ Len(requests) = page
        /\ requests[Len(requests)].page = page
        /\ all_reviews = KeptOfPages(page - 1)
        /\ (pc = "done" => Len(files) = 1 /\ files[1].data = FileData(KeptOfPages(page - 1)))

C3_Witness ==
    /\ C3_ZeroCards
    /\ pc = "done"
    /\ page = 3
    /\ Len(all_reviews) >= 1
    /\ Len(all_reviews) < Len(Flatten(site.pages))

(* C4: for a date text in a supported format that denotes calendar date d, *)
(* in_range returns true exactly when start <= d <= end, also when         *)
(* start > end.                                                            *)
C4_InRangeIsTheWindow ==
    (probe.pc = "returned" /\ probe.supported) =>
        (probe.ret <=> (DayNumber(probe.lo) <= DayNumber(probe.date)
                        /\ DayNumber(probe.date) <= DayNumber(probe.hi)))

C4_Witness ==
    /\ probe.pc = "returned"
    /\ probe.supported
    /\ probe.ret
    /\ probe.date = probe.lo
    /\ probe.date # probe.hi
    /\ probe.date_str = Written(Date(2024, 2, 29), "abbr")

(* C5: for a date text that matches none of the three formats (the empty   *)
(* text of a card without date element included) in_range returns true for *)
(* every window, so such a card is always appended to the output.          *)
C5_UnparseableDateIsKept ==
    [][(/\ pc = "cards"
        /\ idx <= Len(cards)
        /\ Unparseable(DateTextOf(cards[idx]))
        /\ idx' # idx \/ pc' # pc)
       => /\ in_range(DateTextOf(cards[idx]), start_d, end_d)
          /\ Len(all_reviews') = Len(all_reviews) + 1
          /\ all_reviews'[Len(all_reviews')].date = DateTextOf(cards[idx])]_vars

C6_OnlyRatingMissing(card) ==
    /\ card.rating = None
    /\ card.title # None /\ card.date # None /\ card.user # None /\ card.body # None

(* C6: for each extractor, a card without rating element, its other        *)
(* elements present, yields a Review with rating 0.0 and the other fields  *)
(* from the card, and does not abort the run.                              *)
C6_MissingRatingIsZero ==
    [][(/\ pc = "cards"
        /\ idx <= Len(cards)
        /\ C6_OnlyRatingMissing(cards[idx])
        /\ idx' # idx \/ pc' # pc)
       => /\ pc' = "cards"
          /\ idx' = idx + 1
          /\ in_range(DateTextOf(cards[idx]), start_d, end_d) =>
                all_reviews' = Append(all_reviews,
                    Review(GetText(cards[idx].title), GetText(cards[idx].date), Zero,
                           GetText(cards[idx].user), GetText(cards[idx].body),
                           source, company))]_vars

C7_Unmapped == source \in {"g2", "capterra"} /\ Lower(company) \notin DOMAIN SlugMap(source)

(* C7: when the company has no entry in the selected extractor's slug_map, *)
(* the extractor raises a configuration error that aborts the run: no      *)
(* request is issued and write_json is never called.                       *)
C7_NoSlugAborts ==
    C7_Unmapped =>
        /\ requests = <<>>
        /\ files = <<>>
        /\ pc \in {"main", "raised"}
        /\ pc = "raised" => error = "ValueError"
        /\ pc = "main" => ENABLED ScrapeNoSlug

C7_Witness ==
    /\ C7_Unmapped
    /\ pc = "raised"
    /\ error = "ValueError"
    /\ site.pages # <<>>

C8_PagesInOrder == \A i \in 1..Len(requests) : requests[i].page = i

C8_OneDelayBetweenRequests ==
    /\ \A i \in 1..Len(sleeps) : sleeps[i] = DELAY
    /\ Len(sleeps) = IF pc = "fetch" \/ requests = <<>>
                     THEN Len(requests) ELSE Len(requests) - 1

C8_CardsDoneBeforeNextRequest ==
    (pc = "fetch" /\ requests # <<>>) =>
        /\ cards = Answer(site, Len(requests)).cards
        /\ idx = Len(cards) + 1
        /\ page = Len(requests) + 1

(* C8: the pages requested are 1, 2, ..., k in this order, none skipped or  *)
(* requested twice; the cards of a page are all processed before the next  *)
(* request; exactly one fixed delay lies between two consecutive requests; *)
(* and no request follows an answer that is not 200 or has no cards.       *)
C8_SequentialPagination ==
    /\ [](C8_PagesInOrder /\ C8_OneDelayBetweenRequests /\ C8_CardsDoneBeforeNextRequest)
    /\ [][StopAnswer(resp) => requests' = requests]_vars
    /\ [][requests' # requests =>
            /\ requests' = Append(requests, Request(source, company, Len(requests) + 1))
            /\ resp' = Answer(site, Len(requests) + 1)]_vars

C8_Witness ==
    /\ pc = "done"
    /\ Len(requests) = 3
    /\ Len(sleeps) = 2
    /\ StopAnswer(resp)

(* C9, as amended: the loop ends normally, and main then calls write_json  *)
(* exactly once with the accumulated list (also when it is empty), exactly *)
(* when some page answers with a status other than 200 or without cards;   *)
(* when an exception escapes, the loop ends too but write_json is never    *)
(* called; against a site whose every page is 200 with cards the loop      *)
(* never ends normally and write_json is never called.                     *)
C9_WrittenOnceIffStopped ==
    /\ Len(files) <= 1
    /\ (pc = "done") <=> (Len(files) = 1)
    /\ (pc \in {"return", "done"}) <=> StopAnswer(resp)
    /\ (pc = "raised") <=> (error # "")
    /\ pc = "return" => ENABLED WriteJson
    /\ pc = "done" =>
          /\ error = ""
          /\ files[1].name = FileName(company, source)
          /\ files[1].data = FileData(all_reviews)
    /\ pc = "raised" => ~ENABLED Next
    /\ Endless(site) => (pc \notin {"return", "done"} /\ files = <<>>)

C9_Witness ==
    /\ pc = "raised"
    /\ error = "Timeout"
    /\ Len(requests) = 3
    /\ all_reviews # <<>>
    /\ files = <<>>

(* C9 as first stated: the loop ends and write_json is called exactly once *)
(* if and only if some page answers with a status other than 200, or       *)
(* without cards, or an exception escapes.                                 *)
C9_Original ==
    Ended => ((pc = "done" /\ Len(files) = 1) <=> (StopAnswer(resp) \/ error # ""))

C10_ReviewsWellFormed ==
    \A i \in 1..Len(all_reviews) :
        /\ all_reviews[i].source = source
        /\ all_reviews[i].company = company
        /\ in_range(all_reviews[i].date, start_d, end_d)

(* C10: the accumulated sequence only grows at its end, and each review in *)
(* it carries the extractor's label, the company as given on the command   *)
(* line, and a date text that in_range accepts for the run's window.       *)
C10_AppendOnly ==
    /\ []C10_ReviewsWellFormed
    /\ [][PrefixOf(all_reviews, all_reviews')]_vars

C10_Witness ==
    /\ pc = "done"
    /\ Len(all_reviews) = 1
    /\ Len(Flatten(site.pages)) = 2
    /\ company # Lower(company)
    /\ source = "g2"
    /\ all_reviews[1].date = <<>>

====
